---- MODULE Spec2Model ----
(***************************************************************************)
(* Model of jwave/acoustics/time_harmonic.py: rayleigh_integral,           *)
(* helmholtz_solver and helmholtz_solver_verbose.                          *)
(*                                                                         *)
(* Fields are modelled symbolically.  A field is "zero" (all samples 0),   *)
(* "nan" (non-finite samples) or "val" (finite, not all zero).  A "val"    *)
(* field is                                                                *)
(*     (-i*omega)^w * (2/(dx*min_sos))^k * src_magn^m * H^h * s            *)
(* where s is the caller's source and H the discretized Helmholtz          *)
(* operator; exact = FALSE says the field only approximates that value     *)
(* (an unconverged Krylov iterate, a caller's arbitrary guess).            *)
(* Magnitudes (norms, tolerances) are naturals in units of the default     *)
(* tolerance 1e-3; NaNMag stands for a NaN norm.                           *)
(***************************************************************************)
EXTENDS Integers, Sequences, FiniteSets, TLC

\* ---------------------------------------------------------------- bounds
MaxMag == 2          \* norms of nonzero fields range over 1..MaxMag
MaxTol == 2          \* the caller's 'tol' ranges over 0..MaxTol
MaxIter == 2         \* the caller's 'maxiter' ranges over 0..MaxIter
MaxAxis == 2         \* grid points per axis of the Rayleigh source plane

\* ------------------------------------------------------ program constants
DefaultTol == 1          \* 1e-3, the unit of magnitude
DefaultRestart == 10
DefaultMaxiter == 1000
MicroStepMaxiter == 1    \* kwargs['maxiter'] = 1
MicroStepTol == 0        \* kwargs['tol'] = 0.0
NaNMag == -1             \* the norm of a field with NaN samples

\* ------------------------------------------------------------ field algebra
Zero == [kind |-> "zero", w |-> 0, k |-> 0, m |-> 0, h |-> 0, exact |-> TRUE]
NaN == [kind |-> "nan", w |-> 0, k |-> 0, m |-> 0, h |-> 0, exact |-> TRUE]
NoneField == [kind |-> "none", w |-> 0, k |-> 0, m |-> 0, h |-> 0, exact |-> TRUE]
\* the caller's source when it is not all zero
Src == [kind |-> "val", w |-> 0, k |-> 0, m |-> 0, h |-> 0, exact |-> TRUE]
\* an arbitrary nonzero field supplied by the caller as initial guess
AnyField == [kind |-> "val", w |-> 0, k |-> 0, m |-> 0, h |-> 0, exact |-> FALSE]

\* min_sos: jnp.amin over the sound speed, a Field or a scalar; positive
MinSos(medium) ==
  IF medium.isField THEN medium.amin ELSE medium.amin

\* mutant of ScaleSource: the source is also divided by its own norm
ScaleSourceByNorm(f, min_sos) ==
  IF f.kind = "zero" THEN NaN
  ELSE IF f.kind = "val" THEN [f EXCEPT !.k = @ + 1, !.m = @ - 1] ELSE f

\* f * 2 / (dx * min_sos), with dx > 0 and min_sos > 0
ScaleSource(f, min_sos) ==
  IF f.kind = "val" /\ min_sos > 0 THEN [f EXCEPT !.k = @ + 1] ELSE f

\* -1j * omega * f
ScaleOmega(f, omega) ==
  IF f.kind = "nan" THEN NaN
  ELSE IF omega = 0 \/ f.kind = "zero" THEN Zero
  ELSE [f EXCEPT !.w = @ + 1]

\* f * 0
TimesZero(f) ==
  IF f.kind = "nan" THEN NaN ELSE Zero

\* f / s for a real scalar s >= 0: 0/0 and x/0 are not finite
DivScalar(f, s) ==
  IF f.kind = "nan" \/ s = NaNMag \/ s = 0 THEN NaN
  ELSE IF f.kind = "zero" THEN Zero
  ELSE [f EXCEPT !.m = @ - 1]

\* f * s for a real scalar s >= 0
MulScalar(f, s) ==
  IF f.kind = "nan" \/ s = NaNMag THEN NaN
  ELSE IF f.kind = "zero" \/ s = 0 THEN Zero
  ELSE [f EXCEPT !.m = @ + 1]

\* a - b
Sub(a, b) ==
  IF a.kind = "nan" \/ b.kind = "nan" THEN NaN
  ELSE IF a = b /\ a.exact THEN Zero
  ELSE IF a.kind = "zero" THEN b
  ELSE IF b.kind = "zero" THEN a
  ELSE [a EXCEPT !.exact = FALSE]

\* the values jnp.linalg.norm can take on a field
NormChoices(f) ==
  IF f.kind = "nan" THEN {NaNMag}
  ELSE IF f.kind = "zero" THEN {0}
  ELSE 1..MaxMag

\* a > b on floats: every comparison with NaN is False
Gt(a, b) == a # NaNMag /\ b # NaNMag /\ a > b

\* ------------------------------------------------- external collaborators
\* helmholtz(u, medium, omega, params=...): the discretized Helmholtz
\* operator, linear in u
Helmholtz(u) ==
  IF u.kind = "val" THEN [u EXCEPT !.h = @ + 1] ELSE u

\* helmholtz.default_params(source, medium, omega)
DefaultParams(source, medium, omega) == "default"

\* what a Krylov solve of H(u) = b can do from x0: no iteration is made when
\* the budget is empty or the initial residual does not exceed the tolerance;
\* otherwise it ends on the exact solution, on an iterate within a positive
\* tolerance, or on the last iterate of an exhausted budget
KrylovChoices(b, x0, tol, maxiter) ==
  LET r0 == Sub(Helmholtz(x0), b) IN
  IF maxiter <= 0 \/ r0.kind \in {"zero", "nan"} THEN {"initial"}
  ELSE {"exact", "exhausted"}
       \cup (IF tol > 0 THEN {"within_tol"} ELSE {})
       \cup (IF tol > 0 /\ b.kind = "val" THEN {"initial"} ELSE {})

\* gmres(A, b, x0, tol, restart, maxiter, solve_method) and
\* bicgstab(A, b, x0, tol, maxiter): the iterate and whether it met tol
Krylov(b, x0, tol, maxiter, choice) ==
  LET r0 == Sub(Helmholtz(x0), b) IN
  IF choice = "initial"
    THEN [x |-> x0, converged |-> (r0.kind = "zero" \/ (tol > 0 /\ maxiter > 0 /\ r0.kind = "val"))]
  ELSE IF choice = "exact"
    THEN [x |-> IF b.kind = "val" THEN [b EXCEPT !.h = @ - 1] ELSE b,
          converged |-> TRUE]
  ELSE [x |-> IF b.kind = "val" THEN [b EXCEPT !.h = @ - 1, !.exact = FALSE]
                                ELSE AnyField,
        converged |-> (choice = "within_tol")]

\* ------------------------------------------------------------ keyword args
NoKwargs == [key \in {} |-> 0]

Merge(f, g) ==
  [key \in (DOMAIN f) \cup (DOMAIN g) |-> IF key \in DOMAIN f THEN f[key] ELSE g[key]]

\* kwargs[key] if key in kwargs else default
KwGet(kwargs, key, default) ==
  IF key \in DOMAIN kwargs THEN kwargs[key] ELSE default

\* kwargs[key] = value
KwSet(kwargs, key, value) ==
  [kk \in (DOMAIN kwargs) \cup {key} |-> IF kk = key THEN value ELSE kwargs[kk]]

\* --------------------------------------------------------- helmholtz_solver
\* if guess is None: guess = source*0
SolverGuess(guess, source) ==
  IF guess.kind = "none" THEN TimesZero(source) ELSE guess

\* if params is None: params = helmholtz.default_params(source, medium, omega)
SolverParams(params, source, medium, omega) ==
  IF params = "None" THEN DefaultParams(source, medium, omega) ELSE params

\* mutant of SelectedSolver: an unknown method falls back to gmres
SelectedSolverFallback(method) ==
  IF method = "bicgstab" THEN "bicgstab" ELSE "gmres"

\* the branch of `if method == 'gmres': ... elif method == 'bicgstab': ...`
\* that binds `out`; no branch binds it for any other string
SelectedSolver(method) ==
  IF method = "gmres" THEN "gmres"
  ELSE IF method = "bicgstab" THEN "bicgstab"
  ELSE "unbound"

\* the arguments the selected Krylov method is called with
KrylovCall(solver, checkpoint, params, kwargs) ==
  LET tol == KwGet(kwargs, "tol", DefaultTol)
      restart == KwGet(kwargs, "restart", DefaultRestart)
      maxiter == KwGet(kwargs, "maxiter", DefaultMaxiter)
      solve_method == KwGet(kwargs, "solve_method", "batched")
  IN IF solver = "gmres"
       THEN [method |-> "gmres", tol |-> tol, restart |-> restart,
             maxiter |-> maxiter, solve_method |-> solve_method,
             checkpoint |-> checkpoint, params |-> params]
       ELSE [method |-> "bicgstab", tol |-> tol, maxiter |-> maxiter,
             checkpoint |-> checkpoint, params |-> params]

\* mutant of SolverReturn: an unconverged solve is turned into an error
SolverReturnStrict(kr, omega) ==
  IF kr.converged
    THEN [status |-> "returned", error |-> "none", value |-> ScaleOmega(kr.x, omega)]
    ELSE [status |-> "raised", error |-> "NotConverged", value |-> NoneField]

\* out = gmres(...)[0]; return -1j*omega*out, None
\* (the convergence info is dropped, nothing is raised; the operator
\* decorator hands the caller the first element of the returned pair)
SolverReturn(kr, omega) ==
  [status |-> "returned", error |-> "none", value |-> ScaleOmega(kr.x, omega)]

\* the whole call; choice resolves what the Krylov method does.  Besides
\* what the caller sees (status, error, value) the record tells how often
\* default_params ran, the Krylov calls made, and the Krylov iterate.
helmholtz_solver(medium, omega, source, guess, method, checkpoint, params, kwargs, choice) ==
  LET min_sos == MinSos(medium)
      src == ScaleSource(source, min_sos)
      computed == IF params = "None" THEN <<"helmholtz_solver:115">> ELSE << >>
      p == SolverParams(params, src, medium, omega)
      g == SolverGuess(guess, src)
      solver == SelectedSolver(method)
      call == KrylovCall(solver, checkpoint, p, kwargs)
      kr == Krylov(src, g, call.tol, call.maxiter, choice)
      ret == SolverReturn(kr, omega)
  IN IF solver = "unbound"
       THEN [status |-> "raised", error |-> "UnboundLocalError", value |-> NoneField,
             paramComputations |-> computed, calls |-> << >>,
             out |-> NoneField, converged |-> FALSE]
     ELSE [status |-> ret.status, error |-> ret.error, value |-> ret.value,
           paramComputations |-> computed, calls |-> <<call>>,
           out |-> kr.x, converged |-> kr.converged]

\* the outcomes the Krylov method can have inside this call
SolverChoices(medium, source, guess, method, kwargs) ==
  LET src == ScaleSource(source, MinSos(medium))
      g == SolverGuess(guess, src)
  IN IF SelectedSolver(method) = "unbound" THEN {"initial"}
     ELSE KrylovChoices(src, g, KwGet(kwargs, "tol", DefaultTol),
                        KwGet(kwargs, "maxiter", DefaultMaxiter))

\* ------------------------------------------------- helmholtz_solver_verbose
\* source = source / src_magn
NormalizedSource(source, src_magn) == DivScalar(source, src_magn)

\* if params is None: params = helmholtz(source, medium, omega)._op_params
VerboseParams(params, source, medium, omega) ==
  IF params = "None" THEN DefaultParams(source, medium, omega) ELSE params

\* the places that initialise operator parameters before the loop: the
\* baseline residual helmholtz(source, medium, omega) is evaluated without
\* params=, so the operator initialises its own, and the same call is made
\* again to read ._op_params when the caller gave none
SetupParamComputations(params) ==
  <<"helmholtz_solver_verbose:150">>
  \o (IF params = "None" THEN <<"helmholtz_solver_verbose:154">> ELSE << >>)

\* if guess is None: guess = source*0
VerboseGuess(guess, source) ==
  IF guess.kind = "none" THEN TimesZero(source) ELSE guess

\* mutant of MicroStepKwargs: the caller's 'maxiter' and 'tol' win
MicroStepKwargsKeep(kwargs) ==
  Merge(kwargs, [maxiter |-> MicroStepMaxiter, tol |-> MicroStepTol])

\* kwargs['maxiter'] = 1; kwargs['tol'] = 0.0
MicroStepKwargs(kwargs) ==
  KwSet(KwSet(kwargs, "maxiter", MicroStepMaxiter), "tol", MicroStepTol)

\* checkpoint is not passed to helmholtz_solver: its default applies
MicroStepCheckpoint == TRUE

\* mutant of LoopGuard: `or` for `and`
LoopGuardOr(res, tolerance, its, budget) ==
  Gt(res, tolerance) \/ its < budget

\* while residual_magnitude > tol and iterations < maxiter
LoopGuard(res, tolerance, its, budget) ==
  Gt(res, tolerance) /\ its < budget

\* iterations += 1
NextIterations(its) == its + 1

\* mutant of ReportedResidual: the print shows the residual before the step
ReportedResidualStale(before, after) == before

\* the residual magnitude the print after a step shows
ReportedResidual(before, after) == after

\* return -1j*omega*guess* src_magn * 2 / (source.domain.dx[0] * min_sos)
VerboseResult(g, omega, magn, min_sos) ==
  ScaleSource(MulScalar(ScaleOmega(g, omega), magn), min_sos)

\* -------------------------------------------------------- rayleigh_integral
\* number of samples of a grid of the given shape
RECURSIVE Cells(_)
Cells(shape) ==
  IF shape = << >> THEN 1 ELSE Head(shape) * Cells(Tail(shape))

\* mutant of RayleighCheck: the shape of r is not checked
RayleighCheckNoAssert(ndim, rshape) ==
  IF ndim # 2 THEN "ValueError" ELSE "none"

\* the checks, in order: pressure.ndim != 2 raises ValueError, then
\* assert r.shape == (3,)
RayleighCheck(ndim, rshape) ==
  IF ndim # 2 THEN "ValueError"
  ELSE IF rshape # <<3>> THEN "AssertionError"
  ELSE "none"

\* the whole call: kernel weights over the plane grid, then one sum
rayleigh_integral(shape, rshape) ==
  LET err == RayleighCheck(Len(shape), rshape) IN
  IF err # "none"
    THEN [status |-> "raised", error |-> err, value |-> "none",
          kernelEvals |-> 0, sums |-> 0]
    ELSE [status |-> "returned", error |-> "none", value |-> "complex",
          kernelEvals |-> Cells(shape), sums |-> 1]

\* -------------------------------------------------------------------- state
VARIABLES
  pc,                  \* "idle", "loop", "returned", "raised"
  op,                  \* the operation called
  args,                \* the arguments it was called with
  source,              \* verbose driver: the normalized source
  src_magn,            \* verbose driver: norm of the caller's source
  tol,                 \* verbose driver: outer tolerance
  maxiter,             \* verbose driver: outer budget
  params,              \* verbose driver: operator parameters
  guess,               \* verbose driver: current iterate
  kwargs,              \* verbose driver: keyword arguments of a micro-step
  iterations,          \* verbose driver: loop counter
  residual_magnitude,  \* verbose driver: last residual norm
  result,              \* the field returned by a solver
  error,               \* the exception raised, or "none"
  paramComputations,   \* places that initialised operator parameters
  loopParams,          \* parameter values used by evaluations in the loop
  krylovCalls,         \* the Krylov calls made, in order
  reports,             \* the lines printed, in order
  last,                \* the last Krylov solve: choice, iterate, converged
  rayleigh             \* rayleigh_integral's outcome

vars == <<pc, op, args, source, src_magn, tol, maxiter, params, guess, kwargs,
          iterations, residual_magnitude, result, error, paramComputations,
          loopParams, krylovCalls, reports, last, rayleigh>>

verboseVars == <<source, src_magn, tol, maxiter, params, guess, kwargs,
                 iterations, residual_magnitude, loopParams, reports>>

NoLast == [choice |-> "none", out |-> NoneField, converged |-> FALSE]
NoRayleigh == [value |-> "none", kernelEvals |-> 0, sums |-> 0]

\* ------------------------------------------------------------------- inputs
Media == [isField : BOOLEAN, amin : {1500}]
Omegas == {0, 1}
Sources == {Zero, Src}
Guesses == {NoneField, AnyField}
Methods == {"gmres", "bicgstab", "cg"}
ParamsArgs == {"None", "caller"}
TolOpts == {NoKwargs} \cup {[tol |-> v] : v \in 0..MaxTol}
MaxiterOpts == {NoKwargs} \cup {[maxiter |-> v] : v \in 0..MaxIter}
RestartOpts == {NoKwargs, [restart |-> 5]}
SolveOpts == {NoKwargs, [solve_method |-> "incremental"]}
KwargsChoices ==
  {Merge(t, Merge(n, Merge(r, s))) :
     t \in TolOpts, n \in MaxiterOpts, r \in RestartOpts, s \in SolveOpts}
\* the verbose driver is driven with an explicit 'maxiter': its default,
\* DefaultMaxiter, runs the same loop with a longer budget
VerboseKwargs == {kw \in KwargsChoices : "maxiter" \in DOMAIN kw}
GridShapes ==
  UNION {[1..n -> 1..MaxAxis] : n \in 1..3}
RShapes == {<<2>>, <<3>>, <<4>>, <<1, 3>>}

Init ==
  /\ pc = "idle"
  /\ op = "none"
  /\ args = [op |-> "none"]
  /\ source = NoneField
  /\ src_magn = 0
  /\ tol = 0
  /\ maxiter = 0
  /\ params = "None"
  /\ guess = NoneField
  /\ kwargs = NoKwargs
  /\ iterations = 0
  /\ residual_magnitude = 0
  /\ result = NoneField
  /\ error = "none"
  /\ paramComputations = << >>
  /\ loopParams = {}
  /\ krylovCalls = << >>
  /\ reports = << >>
  /\ last = NoLast
  /\ rayleigh = NoRayleigh

\* ------------------------------------------------------------------ actions
\* a call of helmholtz_solver
CallHelmholtzSolver(medium, omega, source0, guess0, method, checkpoint, params0, kwargs0) ==
  /\ pc = "idle"
  /\ \E choice \in SolverChoices(medium, source0, guess0, method, kwargs0) :
       LET r == helmholtz_solver(medium, omega, source0, guess0, method,
                                 checkpoint, params0, kwargs0, choice)
       IN /\ pc' = r.status
          /\ result' = r.value
          /\ error' = r.error
          /\ paramComputations' = r.paramComputations
          /\ krylovCalls' = r.calls
          /\ last' = [choice |-> IF r.calls = << >> THEN "none" ELSE choice,
                      out |-> r.out, converged |-> r.converged]
  /\ op' = "helmholtz_solver"
  /\ args' = [medium |-> medium, omega |-> omega, source |-> source0,
              guess |-> guess0, method |-> method, checkpoint |-> checkpoint,
              params |-> params0, kwargs |-> kwargs0]
  /\ UNCHANGED <<verboseVars, rayleigh>>

\* helmholtz_solver_verbose up to the loop (lines 146-166)
VerboseEnter(medium, omega, source0, guess0, params0, kwargs0) ==
  /\ pc = "idle"
  /\ \E magn \in NormChoices(source0) :
       /\ src_magn' = magn
       /\ source' = NormalizedSource(source0, magn)
  /\ tol' = KwGet(kwargs0, "tol", DefaultTol)
  /\ residual_magnitude' \in NormChoices(Helmholtz(source'))
  /\ maxiter' = KwGet(kwargs0, "maxiter", DefaultMaxiter)
  /\ paramComputations' = SetupParamComputations(params0)
  /\ params' = VerboseParams(params0, source', medium, omega)
  /\ guess' = VerboseGuess(guess0, source')
  /\ kwargs' = MicroStepKwargs(kwargs0)
  /\ iterations' = 0
  /\ pc' = "loop"
  /\ op' = "helmholtz_solver_verbose"
  /\ args' = [medium |-> medium, omega |-> omega, source |-> source0,
              guess |-> guess0, params |-> params0, kwargs |-> kwargs0]
  /\ UNCHANGED <<result, error, loopParams, krylovCalls, reports, last, rayleigh>>

\* one pass of the loop (lines 175-184): the jitted micro-step, the residual,
\* the counter and the print
VerboseIterate ==
  /\ pc = "loop"
  /\ LoopGuard(residual_magnitude, tol, iterations, maxiter)
  /\ \E choice \in SolverChoices(args.medium, source, guess, "gmres", kwargs) :
       LET r == helmholtz_solver(args.medium, args.omega, source, guess, "gmres",
                                 MicroStepCheckpoint, params, kwargs, choice)
           residual == Sub(Helmholtz(r.value), source)
       IN /\ guess' = r.value
          /\ \E magn \in NormChoices(residual) :
               /\ residual_magnitude' = magn
               /\ reports' = Append(reports,
                    [iterations |-> NextIterations(iterations),
                     residual_magnitude |-> ReportedResidual(residual_magnitude, magn),
                     tol |-> tol])
          /\ paramComputations' = paramComputations \o r.paramComputations
          /\ krylovCalls' = krylovCalls \o r.calls
          /\ loopParams' = loopParams \cup {r.calls[1].params, params}
          /\ last' = [choice |-> choice, out |-> r.out, converged |-> r.converged]
  /\ iterations' = NextIterations(iterations)
  /\ UNCHANGED <<pc, op, args, source, src_magn, tol, maxiter, params, kwargs,
                 result, error, rayleigh>>

\* the loop is left and the rescaled iterate returned (line 186)
VerboseReturn ==
  /\ pc = "loop"
  /\ ~LoopGuard(residual_magnitude, tol, iterations, maxiter)
  /\ result' = VerboseResult(guess, args.omega, src_magn, MinSos(args.medium))
  /\ pc' = "returned"
  /\ UNCHANGED <<op, args, verboseVars, error, paramComputations, krylovCalls,
                 last, rayleigh>>

\* a call of rayleigh_integral on a pressure field of the given grid shape
CallRayleigh(shape, rshape) ==
  /\ pc = "idle"
  /\ LET r == rayleigh_integral(shape, rshape)
     IN /\ pc' = r.status
        /\ error' = r.error
        /\ rayleigh' = [value |-> r.value, kernelEvals |-> r.kernelEvals,
                        sums |-> r.sums]
  /\ op' = "rayleigh_integral"
  /\ args' = [shape |-> shape, r |-> rshape]
  /\ UNCHANGED <<verboseVars, result, paramComputations, krylovCalls, last>>

\* the caller makes one call, with any arguments
SolveHelmholtz ==
  /\ pc = "idle"
  /\ \E medium \in Media, omega \in Omegas, source0 \in Sources,
        guess0 \in Guesses, method \in Methods, checkpoint \in BOOLEAN,
        params0 \in ParamsArgs, kwargs0 \in KwargsChoices :
       CallHelmholtzSolver(medium, omega, source0, guess0, method, checkpoint,
                           params0, kwargs0)

SolveHelmholtzVerbose ==
  /\ pc = "idle"
  /\ \E medium \in Media, omega \in Omegas, source0 \in Sources,
        guess0 \in Guesses, params0 \in ParamsArgs, kwargs0 \in VerboseKwargs :
       VerboseEnter(medium, omega, source0, guess0, params0, kwargs0)

EvaluateRayleigh ==
  /\ pc = "idle"
  /\ \E shape \in GridShapes, rshape \in RShapes : CallRayleigh(shape, rshape)

Next ==
  \/ SolveHelmholtz
  \/ SolveHelmholtzVerbose
  \/ VerboseIterate
  \/ VerboseReturn
  \/ EvaluateRayleigh

Spec == Init /\ [][Next]_vars

\* the loop is a single thread of control: a pass that can run does run,
\* and the return that can happen does happen
FairSpec == Spec /\ WF_vars(VerboseIterate) /\ WF_vars(VerboseReturn)

\* ------------------------------------------------------------------- claims
SolverCalled == op = "helmholtz_solver"
VerboseCalled == op = "helmholtz_solver_verbose"
VerboseDone == VerboseCalled /\ pc = "returned"
RayleighCalled == op = "rayleigh_integral"

\* the caller's budget of a helmholtz_solver_verbose call
CallerMaxiter == KwGet(args.kwargs, "maxiter", DefaultMaxiter)
CallerTol == KwGet(args.kwargs, "tol", DefaultTol)

\* C1: helmholtz_solver_verbose never makes more micro-steps than the
\* caller's max_iterations (none for a budget of 0), and once in its loop it
\* always comes to return, whether or not the tolerance was met.
C1_Terminates ==
  /\ [](VerboseCalled =>
          /\ iterations <= CallerMaxiter
          /\ Len(krylovCalls) <= CallerMaxiter
          /\ Len(krylovCalls) = iterations)
  /\ ((VerboseCalled /\ pc = "loop") ~> VerboseDone)

\* the budget was used up and the tolerance is still not met
C1_Witness ==
  /\ VerboseDone
  /\ iterations = CallerMaxiter
  /\ iterations >= 2
  /\ Gt(residual_magnitude, tol)

\* C2: helmholtz_solver on an all-zero source with no initial guess returns
\* the all-zero field, for every medium, frequency and either method.
C2_ZeroSourceZeroField ==
  (/\ SolverCalled
   /\ args.source = Zero
   /\ args.guess = NoneField
   /\ args.method \in {"gmres", "bicgstab"})
  => (pc = "returned" /\ error = "none" /\ result = Zero)

C2_Witness ==
  /\ SolverCalled
  /\ args.source = Zero
  /\ args.guess = NoneField
  /\ args.method = "bicgstab"
  /\ args.omega # 0
  /\ args.medium.isField
  /\ result = Zero

\* C3: helmholtz_solver_verbose on an all-zero source with no initial guess
\* returns the all-zero field.
C3_VerboseZeroSourceZeroField ==
  (VerboseDone /\ args.source = Zero /\ args.guess = NoneField)
  => result = Zero

\* number of components of an array of the given shape
Components(shape) == Cells(shape)

\* C4: rayleigh_integral on a pressure field that is not 2-dimensional, or
\* with a target point that has not exactly 3 components, ends in an error,
\* returns nothing, and has evaluated no kernel and summed nothing.
C4_RayleighValidates ==
  (RayleighCalled /\ (Len(args.shape) # 2 \/ Components(args.r) # 3))
  => /\ pc = "raised"
     /\ error \in {"ValueError", "AssertionError"}
     /\ rayleigh.value = "none"
     /\ rayleigh.kernelEvals = 0
     /\ rayleigh.sums = 0

\* a 2D plane with a 4-component target point was refused
C4_Witness ==
  /\ RayleighCalled
  /\ Len(args.shape) = 2
  /\ args.r = <<4>>
  /\ pc = "raised"
  /\ error = "AssertionError"

\* C5: when the Krylov method gives up without meeting the tolerance,
\* helmholtz_solver raises nothing and returns -i*omega times the last
\* iterate, as it does whenever the Krylov method was run.
C5_ExhaustedStillReturns ==
  (SolverCalled /\ last.choice # "none")
  => /\ pc = "returned"
     /\ error = "none"
     /\ result = ScaleOmega(last.out, args.omega)

C5_Witness ==
  /\ SolverCalled
  /\ last.choice = "exhausted"
  /\ ~last.converged
  /\ args.method = "bicgstab"
  /\ pc = "returned"
  /\ result.kind = "val"

\* C6: in a helmholtz_solver_verbose call the operator parameters are
\* initialised at most once, not at all when the caller supplies them, never
\* by a micro-step, and every evaluation in the loop uses the same value.
C6_ParamsComputedAtMostOnce ==
  VerboseCalled =>
    /\ Len(paramComputations) <= 1
    /\ (args.params # "None" => paramComputations = << >>)
    /\ \A i \in DOMAIN paramComputations :
         paramComputations[i] # "helmholtz_solver:115"
    /\ loopParams \subseteq {params}

\* the micro-step calls of one run agree with the caller's other options
MicroStepShape(checkpoint) ==
  \A i \in DOMAIN krylovCalls :
    /\ krylovCalls[i].method = "gmres"
    /\ krylovCalls[i].checkpoint = checkpoint
    /\ krylovCalls[i].maxiter = 1
    /\ krylovCalls[i].tol = 0
    /\ krylovCalls[i].restart = KwGet(args.kwargs, "restart", DefaultRestart)
    /\ krylovCalls[i].solve_method = KwGet(args.kwargs, "solve_method", "batched")

\* C7 as stated: every micro-step runs gmres with checkpointing disabled,
\* max_iterations 1 and tolerance 0; the caller's values govern the loop.
C7_MicroStepCheckpointless ==
  VerboseCalled =>
    /\ MicroStepShape(FALSE)
    /\ tol = CallerTol
    /\ maxiter = CallerMaxiter

\* C7 amended: every micro-step runs gmres with max_iterations 1 and
\* tolerance 0 and helmholtz_solver's default checkpointing (enabled); the
\* caller's tolerance and max_iterations govern only the loop guard, and
\* restart and solve_method are passed through.
C7_MicroStepShape ==
  VerboseCalled =>
    /\ MicroStepShape(TRUE)
    /\ tol = CallerTol
    /\ maxiter = CallerMaxiter

\* a micro-step was made for a caller who asked for tol 1, maxiter 2
C7_Witness ==
  /\ VerboseCalled
  /\ Len(krylovCalls) >= 1
  /\ "tol" \in DOMAIN args.kwargs
  /\ args.kwargs.tol = 1
  /\ args.kwargs.maxiter = 2
  /\ "restart" \in DOMAIN args.kwargs

\* one report per micro-step, in order, each with the outer tolerance
ReportsInOrder ==
  /\ Len(reports) = iterations
  /\ \A i \in DOMAIN reports :
       /\ reports[i].iterations = i
       /\ reports[i].tol = tol

\* C8 as stated: whenever helmholtz_solver_verbose returns, after any number
\* of micro-steps from 0 up, the residual magnitude the loop ended with has
\* been reported.
C8_FinalResidualSurfaced ==
  VerboseDone =>
    /\ ReportsInOrder
    /\ reports # << >>
    /\ reports[Len(reports)].residual_magnitude = residual_magnitude

\* C8 amended: a report is printed after every micro-step, in order, and in
\* a run of at least one micro-step the last report shows the residual
\* magnitude the loop ended with; a run of no micro-step reports nothing.
C8_ReportsFollowSteps ==
  VerboseCalled =>
    /\ ReportsInOrder
    /\ (iterations >= 1 =>
          reports[Len(reports)].residual_magnitude = residual_magnitude)
    /\ (iterations = 0 => reports = << >>)

\* two steps were made, the budget is used up, the tolerance is not met
C8_Witness ==
  /\ VerboseDone
  /\ iterations = 2
  /\ Gt(residual_magnitude, tol)
  /\ reports[1].residual_magnitude # reports[2].residual_magnitude

\* what helmholtz_solver returns for the same call when its solve is exact
ExactSolve ==
  helmholtz_solver(args.medium, args.omega, args.source, NoneField, "gmres",
                   TRUE, args.params, NoKwargs, "exact").value

\* C9: when its last micro-step solved the linear system exactly (at a
\* nonzero frequency), helmholtz_solver_verbose returns what
\* helmholtz_solver returns, the iterate it carries is in the units of the
\* Krylov unknown (no factor -i*omega), and the residual it measured is zero.
C9_VerboseAgreesWithSolver ==
  (VerboseDone /\ last.choice = "exact" /\ args.omega # 0)
  => /\ result = ExactSolve
     /\ guess.w = 0
     /\ residual_magnitude = 0

\* C10: helmholtz_solver with a method other than 'gmres' and 'bicgstab'
\* ends in an error, returns no field and runs no Krylov solve.
C10_UnknownMethodRaises ==
  (SolverCalled /\ args.method \notin {"gmres", "bicgstab"})
  => /\ pc = "raised"
     /\ error # "none"
     /\ result = NoneField
     /\ krylovCalls = << >>

C10_Witness ==
  /\ SolverCalled
  /\ args.method = "cg"
  /\ pc = "raised"
  /\ error = "UnboundLocalError"

====
